---- MODULE Spec2Model ----
(***************************************************************************)
(* A model of the override proxy (src/main.go): the chat handler           *)
(* `completions`, the code handler `codeCompletions` with its reader        *)
(* goroutine and its c.Stream translator loop, and the bufio.Scanner        *)
(* based frame reader.                                                      *)
(*                                                                          *)
(* Strings whose inner structure the code looks at (prefix tests, substring *)
(* tests, lengths) are sequences of characters or of tokens; JSON objects   *)
(* are functions from the names of the fields that are present to values.   *)
(***************************************************************************)
EXTENDS Integers, Sequences, FiniteSets, TLC

(***************************************************************************)
(* Bounds of the model.                                                     *)
(***************************************************************************)
\* the longest upstream byte stream of the frame reader, in lines
MaxFrameLines == 2

\* the longest upstream response of the code path, in lines
MaxLines == 2

\* the longest `messages` list of a chat request
MaxMsgs == 2

\* the largest `max_tokens` of a chat request
MaxTok == 2

\* the largest configured ChatMaxTokens
MaxCap == 1

\* the longest prompt and the longest suffix of a body taken as text
MaxText == 2

MaxSuffix == 1

(***************************************************************************)
(* strings.HasPrefix, strings.TrimPrefix, strings.TrimSuffix,               *)
(* strings.Contains and bytes.IndexByte on sequences.                       *)
(***************************************************************************)
HasPrefix(s, p) ==
  /\ Len(p) <= Len(s)
  /\ SubSeq(s, 1, Len(p)) = p

HasSuffix(s, p) ==
  /\ Len(p) <= Len(s)
  /\ SubSeq(s, Len(s) - Len(p) + 1, Len(s)) = p

TrimPrefix(s, p) ==
  IF HasPrefix(s, p) THEN SubSeq(s, Len(p) + 1, Len(s)) ELSE s

TrimSuffix(s, p) ==
  IF HasSuffix(s, p) THEN SubSeq(s, 1, Len(s) - Len(p)) ELSE s

Contains(s, sub) ==
  \E i \in 0..(Len(s) - Len(sub)) : SubSeq(s, i + 1, i + Len(sub)) = sub

\* the 0-based index of the first b in data, -1 when there is none
IndexByte(data, b) ==
  IF \E i \in 1..Len(data) : data[i] = b
  THEN (CHOOSE i \in 1..Len(data) :
          /\ data[i] = b
          /\ \A j \in 1..(i - 1) : data[j] # b) - 1
  ELSE -1

\* data[lo:hi] of Go: the elements at the 0-based indexes lo .. hi-1
Slice(data, lo, hi) == SubSeq(data, lo + 1, hi)

(***************************************************************************)
(* The frame reader: bufio.Scanner with the split function of               *)
(* codeCompletions, and the body of the reader goroutine's loop.            *)
(***************************************************************************)
NL == "\n"

\* the literal "data: "
DataPrefix == <<"d", "a", "t", "a", ":", " ">>

\* the literal "[DONE]"
DoneText == <<"[", "D", "O", "N", "E", "]">>

\* SplitFunc without its last case: the buffered bytes are returned as a token
\* although no newline has been read and the stream has not ended
SplitFuncEager(data, atEOF) ==
  LET i == IndexByte(data, NL) IN
  IF Len(data) = 0
  THEN [advance |-> 0, token |-> <<>>, has |-> FALSE]
  ELSE IF i >= 0
  THEN [advance |-> i + 1, token |-> Slice(data, 0, i), has |-> TRUE]
  ELSE [advance |-> Len(data), token |-> data, has |-> TRUE]

\* the split function: what it returns for the buffered bytes `data`
SplitFunc(data, atEOF) ==
  LET i == IndexByte(data, NL) IN
  IF atEOF /\ Len(data) = 0
  THEN [advance |-> 0, token |-> <<>>, has |-> FALSE]
  ELSE IF i >= 0
  THEN [advance |-> i + 1, token |-> Slice(data, 0, i), has |-> TRUE]
  ELSE IF atEOF
  THEN [advance |-> Len(data), token |-> data, has |-> TRUE]
  ELSE [advance |-> 0, token |-> <<>>, has |-> FALSE]

\* the lines the bounded upstream streams are made of
FrameLines ==
  { <<>>,
    <<"d", "a", "t", "a", ":">>,
    DataPrefix,
    DataPrefix \o <<"x">>,
    DataPrefix \o <<"x", "\r">>,
    <<"x">> \o DataPrefix,
    DoneText,
    DataPrefix \o DataPrefix \o <<"y">> }

RECURSIVE JoinLines(_)
\* every line followed by a newline
JoinLines(ls) ==
  IF ls = <<>> THEN <<>> ELSE Head(ls) \o <<NL>> \o JoinLines(Tail(ls))

LineSeqs(n) == UNION { [1..k -> FrameLines] : k \in 0..n }

\* the byte streams: whole lines, the last one with or without its newline
FrameStreams ==
  { JoinLines(ls) : ls \in LineSeqs(MaxFrameLines) }
    \cup { JoinLines(ls) \o l : ls \in LineSeqs(MaxFrameLines - 1), l \in FrameLines }

(***************************************************************************)
(* JSON values, and encoding/json on the stream chunk structures.           *)
(* A JSON value is a tagged record; an object carries the function from the *)
(* names of its fields to their values.  A Go *string is [nil |-> TRUE] or  *)
(* [nil |-> FALSE, s |-> ...], a Go slice [nil |-> TRUE] or                 *)
(* [nil |-> FALSE, elems |-> ...], and a Go `any` holds the JSON value it   *)
(* was decoded from (JNull for the nil interface).                          *)
(***************************************************************************)
JNull == [t |-> "null"]

JStr(s) == [t |-> "str", s |-> s]

JNum(n) == [t |-> "num", n |-> n]

JArr(a) == [t |-> "arr", a |-> a]

JObj(o) == [t |-> "obj", o |-> o]

NoFields == [f \in {} |-> JNull]

\* the value of field f of object fields o; an absent field decodes like null
Get(o, f) == IF f \in DOMAIN o THEN o[f] ELSE JNull

FieldsOf(v) == IF v.t = "obj" THEN v.o ELSE NoFields

\* json.Unmarshal accepts null, or a value of the type, for a field
Fits(v, t) == v.t \in {"null", t}

StringOf(v) == IF v.t = "str" THEN v.s ELSE ""

IntOf(v) == IF v.t = "num" THEN v.n ELSE 0

PtrOf(v) == IF v.t = "str" THEN [nil |-> FALSE, s |-> v.s] ELSE [nil |-> TRUE]

\* type Message
MessageFits(v) ==
  /\ Fits(v, "obj")
  /\ Fits(Get(FieldsOf(v), "role"), "str")
  /\ Fits(Get(FieldsOf(v), "name"), "str")

UnmarshalMessage(v) ==
  [Role    |-> StringOf(Get(FieldsOf(v), "role")),
   Content |-> Get(FieldsOf(v), "content"),
   Name    |-> PtrOf(Get(FieldsOf(v), "name"))]

\* the fields with `omitempty` are left out when empty
MarshalMessage(m) ==
  LET d == {f \in {"role"} : m.Role # ""}
             \cup {f \in {"content"} : m.Content # JNull}
             \cup {f \in {"name"} : ~m.Name.nil}
  IN JObj([f \in d |->
             CASE f = "role" -> JStr(m.Role)
               [] f = "content" -> m.Content
               [] f = "name" -> JStr(m.Name.s)])

\* type ChatCompletionsStreamResponseChoice
ChoiceFits(v) ==
  /\ Fits(v, "obj")
  /\ Fits(Get(FieldsOf(v), "index"), "num")
  /\ MessageFits(Get(FieldsOf(v), "delta"))
  /\ Fits(Get(FieldsOf(v), "finish_reason"), "str")

UnmarshalChoice(v) ==
  [Index        |-> IntOf(Get(FieldsOf(v), "index")),
   Delta        |-> UnmarshalMessage(Get(FieldsOf(v), "delta")),
   FinishReason |-> PtrOf(Get(FieldsOf(v), "finish_reason"))]

MarshalChoice(c) ==
  LET d == {"index", "delta"} \cup {f \in {"finish_reason"} : ~c.FinishReason.nil}
  IN JObj([f \in d |->
             CASE f = "index" -> JNum(c.Index)
               [] f = "delta" -> MarshalMessage(c.Delta)
               [] f = "finish_reason" -> JStr(c.FinishReason.s)])

\* type ChatCompletionsStreamResponse
ResponseFits(v) ==
  /\ Fits(v, "obj")
  /\ Fits(Get(FieldsOf(v), "id"), "str")
  /\ Fits(Get(FieldsOf(v), "object"), "str")
  /\ Fits(Get(FieldsOf(v), "created"), "num")
  /\ Fits(Get(FieldsOf(v), "model"), "str")
  /\ Fits(Get(FieldsOf(v), "choices"), "arr")
  /\ Get(FieldsOf(v), "choices").t = "arr" =>
       \A i \in 1..Len(Get(FieldsOf(v), "choices").a) :
          ChoiceFits(Get(FieldsOf(v), "choices").a[i])

UnmarshalResponse(v) ==
  LET cs == Get(FieldsOf(v), "choices") IN
  [Id      |-> StringOf(Get(FieldsOf(v), "id")),
   Object  |-> StringOf(Get(FieldsOf(v), "object")),
   Created |-> IntOf(Get(FieldsOf(v), "created")),
   Model   |-> StringOf(Get(FieldsOf(v), "model")),
   Choices |-> IF cs.t = "arr"
               THEN [nil |-> FALSE,
                     elems |-> [i \in 1..Len(cs.a) |-> UnmarshalChoice(cs.a[i])]]
               ELSE [nil |-> TRUE, elems |-> <<>>]]

\* no top-level field has `omitempty`: all five are always written
MarshalResponse(r) ==
  JObj([id      |-> JStr(r.Id),
        object  |-> JStr(r.Object),
        created |-> JNum(r.Created),
        model   |-> JStr(r.Model),
        choices |-> IF r.Choices.nil
                    THEN JNull
                    ELSE JArr([i \in 1..Len(r.Choices.elems) |->
                                 MarshalChoice(r.Choices.elems[i])])])

(***************************************************************************)
(* Upstream payloads.  The text of a payload is modelled by what            *)
(* json.Unmarshal makes of it: "json" with the value it parses to, "done"   *)
(* for the text [DONE], "bad" for any other text that is not JSON.          *)
(***************************************************************************)
PDone == [t |-> "done"]

PBad == [t |-> "bad"]

PJson(v) == [t |-> "json", v |-> v]

\* err != nil at line 466
UnmarshalErr(p) == p.t # "json" \/ ~ResponseFits(p.v)

\* stands for the end-of-text sentinel of line 477
EndOfSentence == "<|end_of_sentence|>"

\* the chunk of the spec's end-to-end scenario
ChunkHi ==
  JObj([id |-> JStr("x"),
        choices |-> JArr(<<JObj([index |-> JNum(0),
                                 delta |-> JObj([content |-> JStr("hi")])])>>)])

\* a chunk that carries every declared field, none of them empty
ChunkFull(content) ==
  JObj([id |-> JStr("x"),
        object |-> JStr("chat.completion.chunk"),
        created |-> JNum(7),
        model |-> JStr("m"),
        choices |-> JArr(<<JObj([index |-> JNum(0),
                                 delta |-> JObj([role |-> JStr("assistant"),
                                                 content |-> JStr(content)])])>>)])

\* the same with "finish_reason": null in the choice and a "usage" field
ChunkExtras(content) ==
  JObj([id |-> JStr("x"),
        object |-> JStr("chat.completion.chunk"),
        created |-> JNum(7),
        model |-> JStr("m"),
        usage |-> JNull,
        choices |-> JArr(<<JObj([index |-> JNum(0),
                                 delta |-> JObj([role |-> JStr("assistant"),
                                                 content |-> JStr(content)]),
                                 finish_reason |-> JNull])>>)])

\* a chunk whose list of choices is empty
ChunkNoChoices == JObj([id |-> JStr("x"), choices |-> JArr(<<>>)])

\* JSON of the wrong shape: "created" is a string
ChunkMistyped == JObj([id |-> JStr("x"), created |-> JStr("now")])

Payloads ==
  { PDone, PBad, PJson(ChunkMistyped),
    PJson(ChunkHi), PJson(ChunkFull("b")), PJson(ChunkFull(EndOfSentence)),
    PJson(ChunkExtras(EndOfSentence)), PJson(ChunkNoChoices) }

(***************************************************************************)
(* HTTP statuses the handlers name.                                         *)
(***************************************************************************)
StatusOK == 200

StatusBadRequest == 400

StatusRequestTimeout == 408

StatusInternalServerError == 500

\* the statuses for which gin's Context.Render writes the headers and no body
BodylessStatuses == {204, 304}

BodyAllowedForStatus(status) == status \notin BodylessStatuses

\* what the upstream may answer with
UpStatuses == {StatusOK, 204, 401, StatusInternalServerError}

ErrorBody == "{\"error\":\"boom\"}"

\* the body the upstream sends with a status other than 200
ErrorBodyOf(status) == IF BodyAllowedForStatus(status) THEN ErrorBody ELSE ""

EventStream == "text/event-stream"

AbortBody == "data: [DONE]\n"

\* the response before the handler has touched it; gin's default status is 200
NoResponse == [status |-> StatusOK, ctype |-> "", body |-> ""]

(***************************************************************************)
(* Request bodies (gjson / sjson on a JSON object): the function from the   *)
(* names of the fields that are present to their values.                    *)
(***************************************************************************)
SetField(body, f, v) ==
  [g \in DOMAIN body \cup {f} |-> IF g = f THEN v ELSE body[g]]

DeleteField(body, f) == [g \in DOMAIN body \ {f} |-> body[g]]

\* gjson.GetBytes(body, f).Exists()
Exists(body, f) == f \in DOMAIN body

\* gjson.GetBytes(body, f).String() of a string field: "" when it is absent
StringField(body, f) == IF Exists(body, f) THEN body[f] ELSE ""

\* gjson.GetBytes(body, f).Int() of an integer field: 0 when it is absent
IntField(body, f) == IF Exists(body, f) THEN body[f] ELSE 0

\* gjson.GetBytes(body, f).Array(): empty when the field is absent
ArrayField(body, f) == IF Exists(body, f) THEN body[f] ELSE <<>>

(***************************************************************************)
(* The configuration.  Model identifiers and message contents are sequences *)
(* of tokens, so that prefix and substring tests are computed.              *)
(***************************************************************************)
\* DefaultInstructModel
DefaultInstructModel == <<"gpt-3.5-turbo-instruct">>

StableCodeModelPrefix == <<"stable-code">>

AtSign == <<"@">>

CodeInstructModels ==
  { DefaultInstructModel, <<"@", "cf/deepseek-coder">>, <<"stable-code", "-3b">> }

\* the keys and the values a ChatModelMap is drawn from
ClientModels == {"", "gpt-4"}

UpstreamModels == {"up-4o"}

ChatModelMaps == UNION { [D -> UpstreamModels] : D \in SUBSET ClientModels }

ChatModelDefault == "up-default"

\* the marker "Respond in the following locale", in two tokens
Marker == <<"Respond in the following", " locale">>

ChatLocales == { <<>>, <<"en">> }

ChatConfigs ==
  [CodeInstructModel : {DefaultInstructModel},
   ChatModelMap      : ChatModelMaps,
   ChatModelDefault  : {ChatModelDefault},
   ChatMaxTokens     : (0 - 1)..MaxCap,
   ChatLocale        : ChatLocales]

CodeConfigs ==
  [CodeInstructModel : CodeInstructModels,
   ChatModelMap      : {<<>>},
   ChatModelDefault  : {ChatModelDefault},
   ChatMaxTokens     : {0},
   ChatLocale        : {<<>>}]

(***************************************************************************)
(* The inbound requests.                                                    *)
(***************************************************************************)
\* the contents of a chat message
Contents ==
  { <<"hi", "Respond in the following">>,
    <<"hi">> \o Marker \o <<": ", "en", ".">> }

ChatMessages == [role : {"user"}, content : Contents]

\* a field that may be absent: no value, or one of S
Opt(S) == {{}} \cup { {x} : x \in S }

\* the object with field f when o holds a value for it, with no field otherwise
Part(f, o) == IF o = {} THEN NoFields ELSE f :> (CHOOSE x \in o : TRUE)

ChatBodies ==
  { Part("model", m) @@ Part("function_call", fc) @@ Part("messages", ms)
      @@ Part("max_tokens", mt) @@ Part("intent", it) :
      m \in Opt({"gpt-4", "gpt-x"}),
      fc \in Opt({"auto"}),
      ms \in Opt(UNION { [1..n -> ChatMessages] : n \in 0..MaxMsgs }),
      mt \in Opt((0 - 1)..MaxTok),
      it \in Opt({"ask"}) }

CodeBodies ==
  { [prompt |-> "abc", suffix |-> "def"],
    [model |-> "copilot-codex", prompt |-> "abc", extra |-> "x", nwo |-> "o/r"] }

\* what c.GetString(RequestIdKey) returns: no code of the program sets the key
RequestIds == {""}

\* what GetTimestamp() may return
Timestamps == {1, 2}

(***************************************************************************)
(* The upstream's answers.                                                  *)
(***************************************************************************)
\* a line of an upstream event stream: shorter than "data: " (a blank or a
\* keep-alive line), or a payload's text with or without the prefix "data: "
\* before it and with or without a carriage return after it; the payloads'
\* texts have six characters or more
ShortLine == [k |-> "short"]

DataLine(p, cr) == [k |-> "data", p |-> p, cr |-> cr]

BareLine(p, cr) == [k |-> "bare", p |-> p, cr |-> cr]

Lines ==
  {ShortLine, BareLine(PDone, FALSE), DataLine(PJson(ChunkFull("b")), TRUE)}
    \cup { DataLine(p, FALSE) : p \in Payloads }

UpstreamStreams == UNION { [1..n -> Lines] : n \in 0..MaxLines }

\* a chat upstream answer: status, Content-Type header and body
ChatAnswers ==
  { [status |-> StatusOK, ctype |-> EventStream, body |-> "data: {...}\n\n"],
    [status |-> StatusOK, ctype |-> "", body |-> "{...}"],
    [status |-> 401, ctype |-> "application/json", body |-> ErrorBody],
    [status |-> StatusInternalServerError, ctype |-> "", body |-> ErrorBody] }

(***************************************************************************)
(* The body rewriters.                                                      *)
(***************************************************************************)
RECURSIVE Text(_)
\* the string a sequence of tokens spells
Text(s) == IF s = <<>> THEN "" ELSE Head(s) \o Text(Tail(s))

\* MapModel that forwards the client's own model when the map has no entry
MapModelPassThrough(body, c) ==
  LET model == StringField(body, "model") IN
  IF model \in DOMAIN c.ChatModelMap
  THEN c.ChatModelMap[model]
  ELSE IF Exists(body, "model") THEN model ELSE c.ChatModelDefault

\* completions: the model that is forwarded
MapModel(body, c) ==
  LET model == StringField(body, "model") IN
  IF model \in DOMAIN c.ChatModelMap
  THEN c.ChatModelMap[model]
  ELSE c.ChatModelDefault

\* completions: the locale that is named
LocaleOf(c) == IF c.ChatLocale = <<>> THEN <<"zh_CN">> ELSE c.ChatLocale

\* AugmentContent that appends another wording than the one it tests for
AugmentContentReworded(content, locale) ==
  IF ~Contains(content, Marker)
  THEN content \o <<"Respond in", " locale">> \o <<": ">> \o locale \o <<".">>
  ELSE content

\* completions: the content of the last message after the augmentation
AugmentContent(content, locale) ==
  IF ~Contains(content, Marker)
  THEN content \o Marker \o <<": ">> \o locale \o <<".">>
  ELSE content

\* completions: messages[lastIndex] with lastIndex = -1 is out of range
RewritePanics(body) ==
  /\ ~Exists(body, "function_call")
  /\ Len(ArrayField(body, "messages")) - 1 < 0

AugmentLast(body, c) ==
  LET messages == ArrayField(body, "messages")
      last == Len(messages)
      content == messages[last].content
  IN IF Exists(body, "function_call") \/ Contains(content, Marker)
     THEN body
     ELSE SetField(body, "messages",
            [messages EXCEPT ![last] =
               [@ EXCEPT !.content = AugmentContent(content, LocaleOf(c))]])

StripIntent(body) ==
  DeleteField(DeleteField(DeleteField(body, "intent"), "intent_threshold"),
              "intent_content")

\* ClampMaxTokens with the comparison turned around
ClampMaxTokensReversed(body, c) ==
  IF IntField(body, "max_tokens") < c.ChatMaxTokens
  THEN SetField(body, "max_tokens", c.ChatMaxTokens)
  ELSE body

\* completions: the cap on max_tokens
ClampMaxTokens(body, c) ==
  IF IntField(body, "max_tokens") > c.ChatMaxTokens
  THEN SetField(body, "max_tokens", c.ChatMaxTokens)
  ELSE body

\* completions: the body that is forwarded, for a body that does not panic
RewriteChat(body, c) ==
  ClampMaxTokens(StripIntent(AugmentLast(SetField(body, "model", MapModel(body, c)), c)), c)

constructWithChatModel(body, messages) == SetField(body, "messages", messages)

constructWithStableCodeModel(body) ==
  constructWithChatModel(body,
    << [role |-> "user",
        content |-> <<"<fim_prefix>", StringField(body, "prompt"), "<fim_suffix>",
                      StringField(body, "suffix"), "<fim_middle>">>] >>)

constructWithCfCodeModel(body) ==
  constructWithChatModel(body,
    << [role |-> "user",
        content |-> <<"<|fim_begin|>", StringField(body, "prompt"), "<|fim_hole|>",
                      StringField(body, "suffix"), "<|fim_end|>">>] >>)

ConstructRequestBody(body, c) ==
  LET b == SetField(DeleteField(DeleteField(body, "extra"), "nwo"),
                    "model", Text(c.CodeInstructModel))
  IN IF Contains(c.CodeInstructModel, StableCodeModelPrefix)
     THEN constructWithStableCodeModel(b)
     ELSE IF HasPrefix(c.CodeInstructModel, AtSign)
     THEN constructWithCfCodeModel(b)
     ELSE b

(***************************************************************************)
(* The code request body as text.  A JSON string literal is the sequence   *)
(* of the characters between its quotes; the five characters u003c (and    *)
(* u003e) that follow a backslash in a unicode escape are one element.     *)
(***************************************************************************)
Backslash == "\\"

\* the characters the prompts and the suffixes are made of
TextChars == {"a", "<", ">", Backslash, "u003c"}

\* the texts of at most n characters
Texts(n) == UNION { [1..k -> TextChars] : k \in 0..n }

\* the escape the encoder writes for < and for >, and the text ReplaceAll seeks
EscapedLt == <<Backslash, "u003c">>

EscapedGt == <<Backslash, "u003e">>

RECURSIVE EncodeString(_, _)
\* the string literal a JSON encoder writes for s: a backslash is doubled and,
\* when the encoder escapes HTML as encoding/json does, < and > become
\* unicode escapes
EncodeString(s, html) ==
  IF s = <<>> THEN <<>>
  ELSE LET c == Head(s)
           e == IF c = Backslash THEN <<Backslash, Backslash>>
                ELSE IF html /\ c = "<" THEN EscapedLt
                ELSE IF html /\ c = ">" THEN EscapedGt
                ELSE <<c>>
       IN e \o EncodeString(Tail(s), html)

RECURSIVE DecodeString(_)
\* the value of a string literal; ok is FALSE when the literal is not JSON
DecodeString(t) ==
  IF t = <<>> THEN [ok |-> TRUE, s |-> <<>>]
  ELSE IF Head(t) # Backslash
  THEN LET r == DecodeString(Tail(t)) IN [ok |-> r.ok, s |-> <<Head(t)>> \o r.s]
  ELSE IF Len(t) < 2 THEN [ok |-> FALSE, s |-> <<>>]
  ELSE LET r == DecodeString(SubSeq(t, 3, Len(t)))
           c == IF t[2] = Backslash THEN <<Backslash>>
                ELSE IF t[2] = "u003c" THEN <<"<">>
                ELSE IF t[2] = "u003e" THEN <<">">>
                ELSE <<>>
       IN IF c = <<>> THEN [ok |-> FALSE, s |-> <<>>]
          ELSE [ok |-> r.ok, s |-> c \o r.s]

RECURSIVE ReplaceAll(_, _, _)
\* strings.ReplaceAll: the non-overlapping instances of old, from the left
ReplaceAll(s, old, new) ==
  IF Len(s) < Len(old) THEN s
  ELSE IF HasPrefix(s, old)
  THEN new \o ReplaceAll(SubSeq(s, Len(old) + 1, Len(s)), old, new)
  ELSE <<Head(s)>> \o ReplaceAll(Tail(s), old, new)

\* constructWithChatModel: the two replacements, on the text of one literal
RestoreBrackets(t) ==
  ReplaceAll(ReplaceAll(t, EscapedLt, <<"<">>), EscapedGt, <<">">>)

\* the field of the serialized body that holds the content of messages[0]
ContentField == "messages.0.content"

\* constructWithChatModel on the text: messages is set to the encoding of the
\* one user message, then the brackets are restored in the whole body
constructWithChatModelText(body, content) ==
  LET b == (ContentField :> EncodeString(content, TRUE)) @@ body
  IN [f \in DOMAIN b |-> RestoreBrackets(b[f])]

\* the content constructWithStableCodeModel formats
StableCodeContent(prompt, suffix) ==
  <<"<", "fim_prefix", ">">> \o prompt \o <<"<", "fim_suffix", ">">>
    \o suffix \o <<"<", "fim_middle", ">">>

constructWithStableCodeModelText(body) ==
  constructWithChatModelText(body,
    StableCodeContent(DecodeString(body["prompt"]).s, DecodeString(body["suffix"]).s))

\* the content constructWithCfCodeModel formats
CfCodeContent(prompt, suffix) ==
  <<"<", "|fim_begin|", ">">> \o prompt \o <<"<", "|fim_hole|", ">">>
    \o suffix \o <<"<", "|fim_end|", ">">>

constructWithCfCodeModelText(body) ==
  constructWithChatModelText(body,
    CfCodeContent(DecodeString(body["prompt"]).s, DecodeString(body["suffix"]).s))

\* ConstructRequestBody on the text of the body's string fields
ConstructRequestBodyText(body, c) ==
  LET b == ("model" :> c.CodeInstructModel) @@ body
  IN IF Contains(c.CodeInstructModel, StableCodeModelPrefix)
     THEN constructWithStableCodeModelText(b)
     ELSE IF HasPrefix(c.CodeInstructModel, AtSign)
     THEN constructWithCfCodeModelText(b)
     ELSE b

\* the code request bodies as text: the prompt and the suffix as the client's
\* encoder wrote them, with or without escapes for the angle brackets
TextBodies ==
  { [prompt |-> EncodeString(p, h), suffix |-> EncodeString(x, h)] :
      p \in Texts(MaxText), x \in Texts(MaxSuffix), h \in BOOLEAN }

(***************************************************************************)
(* The responses the handlers write.                                        *)
(***************************************************************************)
\* DoFailureStatus without the test for a canceled context
DoFailureStatusNoCancel(err) == StatusInternalServerError

\* the status for a failed client.Do: errors.Is(err, context.Canceled) or not
DoFailureStatus(err) ==
  IF err = "canceled" THEN StatusRequestTimeout ELSE StatusInternalServerError

\* c.AbortWithStatus(status)
AbortWithStatus(status) == [status |-> status, ctype |-> "", body |-> ""]

\* abortCodex that does not set the Content-Type header
abortCodexNoHeader(status) ==
  [status |-> status,
   ctype  |-> "",
   body   |-> IF BodyAllowedForStatus(status) THEN AbortBody ELSE ""]

\* abortCodex(c, status)
abortCodex(status) ==
  [status |-> status,
   ctype  |-> EventStream,
   body   |-> IF BodyAllowedForStatus(status) THEN AbortBody ELSE ""]

(***************************************************************************)
(* The translator: one pass of the function given to c.Stream.              *)
(***************************************************************************)
\* GetResponseID
GetResponseID(id) == "chatcmpl-" \o id

\* an event handed to c.Render: the literal before the payload, and the payload
Event(pre, body) == [pre |-> pre, body |-> body]

DoneEvent == Event("data: ", PDone)

\* the synthetic finish chunk
EndResponse(id, created, c) ==
  [Id      |-> id,
   Object  |-> "chat.completion.chunk",
   Created |-> created,
   Model   |-> Text(c.CodeInstructModel),
   Choices |-> [nil |-> FALSE,
                elems |-> << [Index |-> 0,
                              Delta |-> [Role |-> "", Content |-> JNull,
                                         Name |-> [nil |-> TRUE]],
                              FinishReason |-> [nil |-> FALSE, s |-> "stop"]] >>]]

FinishEvent(id, created, c) ==
  Event("data: ", PJson(MarshalResponse(EndResponse(id, created, c))))

\* codeResponse.Choices[0] is out of range
DataPanics(p, c) ==
  /\ ~UnmarshalErr(p)
  /\ HasPrefix(c.CodeInstructModel, AtSign)
  /\ Len(UnmarshalResponse(p.v).Choices.elems) = 0

\* BlankSentinel that changes a copy of the choice: the response is as it was
BlankSentinelCopy(r) == r

\* the end-of-text sentinel in the first choice is blanked
BlankSentinel(r) ==
  IF r.Choices.elems[1].Delta.Content = JStr(EndOfSentence)
  THEN [r EXCEPT !.Choices.elems[1].Delta.Content = JStr("")]
  ELSE r

\* DataEvents without the return after a failed json.Unmarshal: on a backend
\* without the @ prefix the payload is rendered all the same
DataEventsNoReturn(p, c) ==
  IF HasPrefix(c.CodeInstructModel, AtSign)
  THEN IF UnmarshalErr(p)
       THEN <<>>
       ELSE << Event("data: ",
                 PJson(MarshalResponse(BlankSentinel(UnmarshalResponse(p.v))))) >>
  ELSE << Event("data:", p) >>

\* DataEvents that takes the payload [DONE] for the end of the stream and
\* writes the [DONE] event for it
DataEventsDoneEcho(p, c) ==
  IF UnmarshalErr(p)
  THEN IF p = PDone THEN << Event("data: ", PDone) >> ELSE <<>>
  ELSE IF HasPrefix(c.CodeInstructModel, AtSign)
  THEN << Event("data: ", PJson(MarshalResponse(BlankSentinel(UnmarshalResponse(p.v))))) >>
  ELSE << Event("data:", p) >>

\* the events the data case renders for payload p (none or one)
DataEvents(p, c) ==
  IF UnmarshalErr(p)
  THEN <<>>
  ELSE IF HasPrefix(c.CodeInstructModel, AtSign)
  THEN << Event("data: ", PJson(MarshalResponse(BlankSentinel(UnmarshalResponse(p.v))))) >>
  ELSE << Event("data:", p) >>

\* what the data case logs for payload p
DataLogs(p) ==
  IF UnmarshalErr(p) /\ p # PDone
  THEN << [msg |-> "error unmarshalling stream response", body |-> ""] >>
  ELSE <<>>

VARIABLES
  path,        \* the route of the request: "chat" or "code"; "frame", "construct": none
  cfg,         \* the configuration
  pc,          \* where the handler is
  clientGone,  \* the client has closed the connection (the context is canceled)
  reqBody,     \* the inbound body
  req,         \* the upstream request the handler has built (none or one body)
  fwd,         \* the bodies client.Do was called with (none or one)
  doErr,       \* how client.Do failed: "none", "canceled" or "other"
  upStatus,    \* resp.StatusCode of the upstream's answer, 0 before there is one
  resp,        \* status, Content-Type and fixed body of the response
  logs,        \* what was logged
  reqId,       \* the request id of the gin context
  upstream,    \* the lines the upstream has still to deliver
  scanned,     \* the lines scanner.Scan() has returned
  readErr,     \* a Read of the upstream body has failed
  rpc,         \* where the reader goroutine is
  rdata,       \* the data the reader goroutine holds
  events,      \* the events rendered to the client
  flushed,     \* how many of them were written when the writer was last flushed
  fStream,     \* the bytes the upstream body delivers, in all
  fPos,        \* how many of them the scanner has read into its buffer
  fBuf,        \* the scanner's buffered, not yet consumed bytes
  fEOF,        \* the body has reported the end of the stream to the scanner
  fOut,        \* the payloads sent on dataChan so far
  fSplit,      \* a Read has ended in the middle of a line
  fDone        \* scanner.Scan() has returned false

frameVars == <<fStream, fPos, fBuf, fEOF, fOut, fSplit, fDone>>

streamVars == <<reqId, upstream, scanned, readErr, rpc, rdata, events, flushed>>

handlerVars == <<path, cfg, pc, clientGone, reqBody, req, fwd, doErr, upStatus, resp, logs>>

vars == <<handlerVars, streamVars, frameVars>>

\* the frame reader at rest
FrameIdle ==
  /\ fStream = <<>>
  /\ fPos = 0
  /\ fBuf = <<>>
  /\ fEOF = FALSE
  /\ fOut = <<>>
  /\ fSplit = FALSE
  /\ fDone = FALSE

\* a handler before it has run
HandlerIdle ==
  /\ clientGone = FALSE
  /\ req = <<>>
  /\ fwd = <<>>
  /\ doErr = "none"
  /\ upStatus = 0
  /\ resp = NoResponse
  /\ logs = <<>>
  /\ upstream = <<>>
  /\ scanned = <<>>
  /\ readErr = FALSE
  /\ rpc = "off"
  /\ rdata = <<>>
  /\ events = <<>>
  /\ flushed = 0

FrameInit ==
  /\ path = "frame"
  /\ cfg \in CodeConfigs
  /\ cfg.CodeInstructModel = DefaultInstructModel
  /\ pc = "done"
  /\ reqBody = NoFields
  /\ reqId = ""
  /\ HandlerIdle
  /\ fStream \in FrameStreams
  /\ fPos = 0
  /\ fBuf = <<>>
  /\ fEOF = FALSE
  /\ fOut = <<>>
  /\ fSplit = FALSE
  /\ fDone = FALSE

\* Scan() finds a token in the buffer; the goroutine drops a short line and
\* sends every other one, less its prefix, on dataChan
FrameToken ==
  LET r == SplitFunc(fBuf, fEOF) IN
  /\ ~fDone
  /\ r.has
  /\ fBuf' = SubSeq(fBuf, r.advance + 1, Len(fBuf))
  /\ fOut' = IF Len(r.token) < Len(DataPrefix)
             THEN fOut
             ELSE Append(fOut, TrimPrefix(r.token, DataPrefix))
  /\ UNCHANGED <<fStream, fPos, fEOF, fSplit, fDone, handlerVars, streamVars>>

\* Scan() needs more data: one Read of the body returns the next k bytes
FrameRead ==
  /\ ~fDone
  /\ ~fEOF
  /\ ~SplitFunc(fBuf, fEOF).has
  /\ fPos < Len(fStream)
  /\ \E k \in 1..(Len(fStream) - fPos) :
       /\ fBuf' = fBuf \o SubSeq(fStream, fPos + 1, fPos + k)
       /\ fPos' = fPos + k
       /\ fSplit' = (fSplit \/ (fPos + k < Len(fStream) /\ fStream[fPos + k] # NL))
  /\ UNCHANGED <<fStream, fEOF, fOut, fDone, handlerVars, streamVars>>

\* Scan() needs more data and the body is exhausted: Read returns io.EOF
FrameReadEOF ==
  /\ ~fDone
  /\ ~fEOF
  /\ ~SplitFunc(fBuf, fEOF).has
  /\ fPos = Len(fStream)
  /\ fEOF' = TRUE
  /\ UNCHANGED <<fStream, fPos, fBuf, fOut, fSplit, fDone, handlerVars, streamVars>>

\* at the end of the stream with nothing buffered Scan() returns false
FrameStop ==
  /\ ~fDone
  /\ fEOF
  /\ ~SplitFunc(fBuf, fEOF).has
  /\ fDone' = TRUE
  /\ UNCHANGED <<fStream, fPos, fBuf, fEOF, fOut, fSplit, handlerVars, streamVars>>

FrameNext ==
  \/ FrameToken
  \/ FrameRead
  \/ FrameReadEOF
  \/ FrameStop

SpecFrame == FrameInit /\ [][FrameNext]_vars

(***************************************************************************)
(* ConstructRequestBody applied to a body taken as text.                    *)
(***************************************************************************)
ConstructInit ==
  /\ path = "construct"
  /\ cfg \in CodeConfigs
  /\ pc = "start"
  /\ reqBody \in TextBodies
  /\ reqId = ""
  /\ HandlerIdle
  /\ FrameIdle

ConstructApply ==
  /\ path = "construct"
  /\ pc = "start"
  /\ fwd' = ConstructRequestBodyText(reqBody, cfg)
  /\ pc' = "done"
  /\ UNCHANGED <<path, cfg, clientGone, reqBody, req, doErr, upStatus, resp, logs,
                 streamVars, frameVars>>

ConstructNext == ConstructApply

SpecConstruct == ConstructInit /\ [][ConstructNext]_vars

(***************************************************************************)
(* The handlers.                                                            *)
(***************************************************************************)
Init ==
  /\ \/ /\ path = "chat"
        /\ cfg \in ChatConfigs
        /\ reqBody \in ChatBodies
        /\ reqId = ""
     \/ /\ path = "code"
        /\ cfg \in CodeConfigs
        /\ reqBody \in CodeBodies
        /\ reqId \in RequestIds
  /\ pc = "start"
  /\ HandlerIdle
  /\ FrameIdle

Log(msg, body) == [msg |-> msg, body |-> body]

\* the client closes the connection while the handler runs
ClientDisconnect ==
  /\ pc \notin {"done", "panicked"}
  /\ ~clientGone
  /\ clientGone' = TRUE
  /\ UNCHANGED <<path, cfg, pc, reqBody, req, fwd, doErr, upStatus, resp, logs, streamVars, frameVars>>

\* completions: io.ReadAll(c.Request.Body)
ChatReadBody ==
  /\ path = "chat"
  /\ pc = "start"
  /\ \E ok \in BOOLEAN :
       IF ok
       THEN pc' = "rewrite" /\ resp' = resp
       ELSE pc' = "done" /\ resp' = AbortWithStatus(StatusBadRequest)
  /\ UNCHANGED <<path, cfg, clientGone, reqBody, req, fwd, doErr, upStatus, logs, streamVars, frameVars>>

\* completions: the body is rewritten and the upstream request is built; the
\* panic of an index out of range is answered by gin's recovery with a 500
ChatRewrite ==
  /\ path = "chat"
  /\ pc = "rewrite"
  /\ IF RewritePanics(SetField(reqBody, "model", MapModel(reqBody, cfg)))
     THEN /\ pc' = "panicked"
          /\ resp' = AbortWithStatus(StatusInternalServerError)
          /\ req' = req
     ELSE \E ok \in BOOLEAN :
            IF ok
            THEN /\ pc' = "do"
                 /\ req' = <<RewriteChat(reqBody, cfg)>>
                 /\ resp' = resp
            ELSE /\ pc' = "done"
                 /\ req' = req
                 /\ resp' = AbortWithStatus(StatusInternalServerError)
  /\ UNCHANGED <<path, cfg, clientGone, reqBody, fwd, doErr, upStatus, logs, streamVars, frameVars>>

\* completions: s.client.Do(req) and the relay of the answer
ChatDo ==
  /\ path = "chat"
  /\ pc = "do"
  /\ fwd' = req
  /\ pc' = "done"
  /\ \/ /\ clientGone
        /\ doErr' = "canceled"
        /\ upStatus' = upStatus
        /\ resp' = AbortWithStatus(DoFailureStatus("canceled"))
        /\ logs' = logs
     \/ /\ ~clientGone
        /\ doErr' = "other"
        /\ upStatus' = upStatus
        /\ resp' = AbortWithStatus(DoFailureStatus("other"))
        /\ logs' = Append(logs, Log("request conversation failed", ""))
     \/ /\ ~clientGone
        /\ doErr' = "none"
        /\ \E a \in ChatAnswers :
             /\ upStatus' = a.status
             /\ resp' = a
             /\ logs' = IF a.status # StatusOK
                        THEN Append(logs, Log("request completions failed", a.body))
                        ELSE logs
  /\ UNCHANGED <<path, cfg, clientGone, reqBody, req, streamVars, frameVars>>

\* CodeDebounce without the check of the context after the delay
CodeDebounceNoCheck ==
  /\ path = "code"
  /\ pc = "start"
  /\ pc' = "read"
  /\ UNCHANGED <<path, cfg, clientGone, reqBody, req, fwd, doErr, upStatus, resp, logs, streamVars, frameVars>>

\* codeCompletions: the debounce and the check of the context after it
CodeDebounce ==
  /\ path = "code"
  /\ pc = "start"
  /\ IF clientGone
     THEN pc' = "done" /\ resp' = abortCodex(StatusRequestTimeout)
     ELSE pc' = "read" /\ resp' = resp
  /\ UNCHANGED <<path, cfg, clientGone, reqBody, req, fwd, doErr, upStatus, logs, streamVars, frameVars>>

\* codeCompletions: the body is read and rewritten, the upstream request built
CodeReadBody ==
  /\ path = "code"
  /\ pc = "read"
  /\ \E outcome \in {"ok", "unreadable", "no request"} :
       CASE outcome = "ok" ->
              /\ pc' = "do"
              /\ req' = <<ConstructRequestBody(reqBody, cfg)>>
              /\ resp' = resp
         [] outcome = "unreadable" ->
              /\ pc' = "done"
              /\ req' = req
              /\ resp' = abortCodex(StatusBadRequest)
         [] outcome = "no request" ->
              /\ pc' = "done"
              /\ req' = req
              /\ resp' = abortCodex(StatusInternalServerError)
  /\ UNCHANGED <<path, cfg, clientGone, reqBody, fwd, doErr, upStatus, logs, streamVars, frameVars>>

\* codeCompletions: s.client.Do(req); an answer other than 200 is logged and
\* aborted, after a 200 the reader goroutine is started and c.Stream entered
CodeDo ==
  /\ path = "code"
  /\ pc = "do"
  /\ fwd' = req
  /\ \/ /\ clientGone
        /\ doErr' = "canceled"
        /\ resp' = abortCodex(DoFailureStatus("canceled"))
        /\ logs' = logs
        /\ pc' = "done"
        /\ UNCHANGED <<upStatus, upstream, rpc>>
     \/ /\ ~clientGone
        /\ doErr' = "other"
        /\ resp' = abortCodex(DoFailureStatus("other"))
        /\ logs' = Append(logs, Log("request completions failed", ""))
        /\ pc' = "done"
        /\ UNCHANGED <<upStatus, upstream, rpc>>
     \/ /\ ~clientGone
        /\ doErr' = "none"
        /\ \E status \in UpStatuses \ {StatusOK} :
             /\ upStatus' = status
             /\ resp' = abortCodex(status)
             /\ logs' = Append(logs, Log("request completions failed", ErrorBodyOf(status)))
        /\ pc' = "done"
        /\ UNCHANGED <<upstream, rpc>>
     \/ /\ ~clientGone
        /\ doErr' = "none"
        /\ upStatus' = StatusOK
        /\ resp' = [status |-> StatusOK, ctype |-> EventStream, body |-> ""]
        /\ logs' = logs
        /\ upstream' \in UpstreamStreams
        /\ rpc' = "scan"
        /\ pc' = "loop"
  /\ UNCHANGED <<path, cfg, clientGone, reqBody, req, reqId, scanned, readErr, rdata,
                 events, flushed, frameVars>>

\* ReaderScan with a dataChan that buffers: the payload is queued and the
\* goroutine scans on
ReaderScanBuffered ==
  /\ rpc = "scan"
  /\ upstream # <<>>
  /\ upstream' = Tail(upstream)
  /\ scanned' = Append(scanned, Head(upstream))
  /\ rpc' = rpc
  /\ rdata' = IF Head(upstream).k = "short"
              THEN rdata
              ELSE Append(rdata, [p |-> Head(upstream).p, cr |-> Head(upstream).cr])
  /\ UNCHANGED <<handlerVars, reqId, readErr, events, flushed, frameVars>>

\* the reader goroutine: scanner.Scan() returns the next line; a short line is
\* skipped, any other is about to be sent, less its prefix, on dataChan
ReaderScan ==
  /\ rpc = "scan"
  /\ upstream # <<>>
  /\ upstream' = Tail(upstream)
  /\ scanned' = Append(scanned, Head(upstream))
  /\ IF Head(upstream).k = "short"
     THEN UNCHANGED <<rpc, rdata>>
     ELSE /\ rpc' = "send"
          /\ rdata' = << [p |-> Head(upstream).p, cr |-> Head(upstream).cr] >>
  /\ UNCHANGED <<handlerVars, reqId, readErr, events, flushed, frameVars>>

\* the reader goroutine: the stream is exhausted, Scan() returns false
ReaderScanEnd ==
  /\ rpc = "scan"
  /\ upstream = <<>>
  /\ rpc' = "stop"
  /\ UNCHANGED <<handlerVars, reqId, upstream, scanned, readErr, rdata, events, flushed,
                 frameVars>>

\* the reader goroutine: a Read of the body fails (the connection breaks, the
\* context is canceled, the body was closed) and Scan() returns false
ReaderScanFail ==
  /\ rpc = "scan"
  /\ upstream # <<>>
  /\ upstream' = <<>>
  /\ readErr' = TRUE
  /\ rpc' = "stop"
  /\ UNCHANGED <<handlerVars, reqId, scanned, rdata, events, flushed, frameVars>>

\* c.Stream: the check of the client's close notification before each pass
StreamCheck ==
  /\ pc = "loop"
  /\ pc' = IF clientGone THEN "close" ELSE "step"
  /\ UNCHANGED <<path, cfg, clientGone, reqBody, req, fwd, doErr, upStatus, resp, logs, streamVars,
                 frameVars>>

\* StepData without the flush after the pass
StepDataNoFlush ==
  /\ pc = "step"
  /\ rpc = "send"
  /\ rpc' = "scan"
  /\ rdata' = <<>>
  /\ LET p == rdata[1].p IN
     IF DataPanics(p, cfg)
     THEN /\ pc' = "panicked"
          /\ UNCHANGED <<events, logs>>
     ELSE /\ pc' = "loop"
          /\ events' = events \o DataEvents(p, cfg)
          /\ logs' = logs \o DataLogs(p)
  /\ UNCHANGED <<path, cfg, clientGone, reqBody, req, fwd, doErr, upStatus, resp, reqId, upstream,
                 scanned, readErr, flushed, frameVars>>

\* c.Stream: a pass that receives from dataChan, and the flush after it
StepData ==
  /\ pc = "step"
  /\ rpc = "send"
  /\ rpc' = "scan"
  /\ rdata' = <<>>
  /\ LET p == rdata[1].p IN
     IF DataPanics(p, cfg)
     THEN /\ pc' = "panicked"
          /\ UNCHANGED <<events, flushed, logs>>
     ELSE /\ pc' = "loop"
          /\ events' = events \o DataEvents(p, cfg)
          /\ logs' = logs \o DataLogs(p)
          /\ flushed' = Len(events')
  /\ UNCHANGED <<path, cfg, clientGone, reqBody, req, fwd, doErr, upStatus, resp, reqId, upstream,
                 scanned, readErr, frameVars>>

\* c.Stream: the pass that receives from stopChan, and the flush after it
StepStop ==
  /\ pc = "step"
  /\ rpc = "stop"
  /\ rpc' = "exit"
  /\ pc' = "close"
  /\ \E created \in Timestamps :
       events' = events \o << FinishEvent(GetResponseID(reqId), created, cfg), DoneEvent >>
  /\ flushed' = Len(events')
  /\ UNCHANGED <<path, cfg, clientGone, reqBody, req, fwd, doErr, upStatus, resp, logs,
                 reqId,
                 upstream, scanned, readErr, rdata, frameVars>>

\* codeCompletions: resp.Body.Close() after c.Stream has returned
CodeCloseBody ==
  /\ pc = "close"
  /\ pc' = "done"
  /\ UNCHANGED <<path, cfg, clientGone, reqBody, req, fwd, doErr, upStatus, resp, logs, streamVars,
                 frameVars>>

Next ==
  \/ ClientDisconnect
  \/ ChatReadBody
  \/ ChatRewrite
  \/ ChatDo
  \/ CodeDebounce
  \/ CodeReadBody
  \/ CodeDo
  \/ ReaderScan
  \/ ReaderScanEnd
  \/ ReaderScanFail
  \/ StreamCheck
  \/ StepData
  \/ StepStop
  \/ CodeCloseBody

Spec == Init /\ [][Next]_vars

\* the steps of the reader goroutine that do not depend on a failure
Reader == ReaderScan \/ ReaderScanEnd

\* the steps of c.Stream and of the handler after it
Translator == StreamCheck \/ StepData \/ StepStop \/ CodeCloseBody

\* the Go scheduler runs a goroutine that can run: the reader goroutine and
\* the handler's goroutine each take a step that stays possible
SpecFair == Init /\ [][Next]_vars /\ WF_vars(Reader) /\ WF_vars(Translator)

(***************************************************************************)
(* Properties.                                                              *)
(***************************************************************************)
\* the code handler has ended: it returned, or it panicked
Ended == pc \in {"done", "panicked"}

\* the code handler got a 200 from the upstream
Streaming == path = "code" /\ upStatus = StatusOK

AtBackend == HasPrefix(cfg.CodeInstructModel, AtSign)

\* e is the synthetic finish chunk of this request
IsFinish(e) ==
  \E created \in Timestamps : e = FinishEvent(GetResponseID(reqId), created, cfg)

IsDone(e) == e = DoneEvent

Count(es, P(_)) == Cardinality({i \in 1..Len(es) : P(es[i])})

\* the events end with one finish chunk and one [DONE], and hold no other
EndsFinishDone(es) ==
  /\ Len(es) >= 2
  /\ IsFinish(es[Len(es) - 1])
  /\ IsDone(es[Len(es)])
  /\ Count(es, IsFinish) = 1
  /\ Count(es, IsDone) = 1

RECURSIVE ParsedPayloads(_)
\* the payloads of the lines ls that parse as stream chunks, in order
ParsedPayloads(ls) ==
  IF ls = <<>>
  THEN <<>>
  ELSE (IF Head(ls).k # "short" /\ ~UnmarshalErr(Head(ls).p)
        THEN <<Head(ls).p>>
        ELSE <<>>) \o ParsedPayloads(Tail(ls))

\* the events before the finish chunk
ChunkEvents(es) ==
  IF Len(es) >= 2 /\ IsFinish(es[Len(es) - 1]) /\ IsDone(es[Len(es)])
  THEN SubSeq(es, 1, Len(es) - 2)
  ELSE es

\* event e is the translation of the parsed payload p
TranslationOf(e, p) ==
  /\ e.body.t = "json"
  /\ IF AtBackend
     THEN LET r == UnmarshalResponse(p.v) IN
          /\ e.pre = "data: "
          /\ UnmarshalResponse(e.body.v) =
               (IF Len(r.Choices.elems) > 0 THEN BlankSentinel(r) ELSE r)
     ELSE e = Event("data:", p)

\* C1 (as claimed): a code request answered with 200, whose client stays
\* connected, ends with the events ending in exactly one synthetic finish
\* chunk immediately followed by exactly one [DONE] event
C1_EndsWithFinishAndDone ==
  (Streaming /\ Ended /\ ~clientGone) => EndsFinishDone(events)

\* C2 (as claimed): when a code request answered with 200, whose client stays
\* connected, has ended, the translated chunk events are the upstream
\* payloads that parse as chunks, one event each and in upstream order, all
\* of them before the finish chunk
C2_EveryParsedPayloadDelivered ==
  (Streaming /\ Ended /\ ~clientGone) =>
     LET ce == ChunkEvents(events)
         pp == ParsedPayloads(scanned)
     IN /\ Len(ce) = Len(pp)
        /\ \A i \in 1..Len(ce) : TranslationOf(ce[i], pp[i])

RECURSIVE SplitLines(_)
\* the stream split on "\n"; the last piece is what follows the last newline
SplitLines(stream) ==
  LET i == IndexByte(stream, NL) IN
  IF i < 0
  THEN <<stream>>
  ELSE <<Slice(stream, 0, i)>> \o SplitLines(SubSeq(stream, i + 2, Len(stream)))

RECURSIVE PayloadsOfLines(_)
\* the lines of six characters or more, each less a leading "data: "
PayloadsOfLines(ls) ==
  IF ls = <<>>
  THEN <<>>
  ELSE (IF Len(Head(ls)) < 6 THEN <<>> ELSE <<TrimPrefix(Head(ls), DataPrefix)>>)
         \o PayloadsOfLines(Tail(ls))

IsPrefixOf(a, b) == Len(a) <= Len(b) /\ SubSeq(b, 1, Len(a)) = a

Refused == path = "code" /\ upStatus \notin {0, StatusOK}

\* what C4 says of the handler apart from the response body
C4_Rest ==
  /\ resp.status = upStatus
  /\ resp.ctype = EventStream
  /\ events = <<>>
  /\ rpc = "off"
  /\ logs = <<Log("request completions failed", ErrorBodyOf(upStatus))>>

\* C4 (as claimed): after an answer other than 200 on the code path the client
\* gets the upstream's status, Content-Type text/event-stream and the body
\* "data: [DONE]\n"; no event is written, the reader is not started and the
\* upstream's error body is logged
C4_Original == Refused => (C4_Rest /\ resp.body = AbortBody)

\* C4 (amended): as claimed, but the body is "data: [DONE]\n" only for a status
\* that allows a body; for 204 and 304 the response has no body
C4_AbortEnvelope ==
  Refused =>
    /\ C4_Rest
    /\ resp.body = (IF upStatus \in {204, 304} THEN "" ELSE AbortBody)

\* the upstream answered the code request with a 500
C4_Witness == Refused /\ upStatus = StatusInternalServerError /\ pc = "done"

\* a pass of the translator that receives a payload which does not parse
MalformedStep ==
  /\ pc = "step"
  /\ rpc = "send"
  /\ rdata' # rdata
  /\ UnmarshalErr(rdata[1].p)

\* the translator has received the end-of-stream signal
StopReceived == rpc = "exit"

\* C5: a payload that does not parse writes no event and ends nothing: the
\* translator loops on, the reader scans on with the lines that are left; and
\* once the end-of-stream signal is received, every payload that parsed, also
\* after one that did not, has its event, before the finish chunk and [DONE]
C5_MalformedPayloadSkipped ==
  /\ [][MalformedStep =>
          /\ events' = events
          /\ pc' = "loop"
          /\ rpc' = "scan"
          /\ upstream' = upstream]_vars
  /\ [](StopReceived =>
          /\ EndsFinishDone(events)
          /\ Len(events) - 2 = Len(ParsedPayloads(scanned)))

\* the stream ended after a payload that did not parse and a later one that did
C5_Witness ==
  /\ StopReceived
  /\ \E i, j \in 1..Len(scanned) :
       /\ i < j
       /\ scanned[i].k # "short" /\ UnmarshalErr(scanned[i].p)
       /\ scanned[j].k # "short" /\ ~UnmarshalErr(scanned[j].p)
  /\ Len(events) = 3

\* the JSON object v with first-choice delta content c, all else as it is
WithContent(v, c) ==
  [v EXCEPT !.o.choices.a[1].o.delta.o.content = c]

\* payload p is a chunk whose first-choice delta content is the sentinel
HasSentinel(p) ==
  /\ ~UnmarshalErr(p)
  /\ Len(UnmarshalResponse(p.v).Choices.elems) > 0
  /\ UnmarshalResponse(p.v).Choices.elems[1].Delta.Content = JStr(EndOfSentence)

\* a pass of the translator on an @ backend that receives such a chunk
SentinelStep ==
  /\ AtBackend
  /\ pc = "step"
  /\ rpc = "send"
  /\ rdata' # rdata
  /\ HasSentinel(rdata[1].p)

\* C6 (as claimed): on an @ backend the event for a chunk with the sentinel is
\* the upstream chunk with that content replaced by "", and nothing else
\* dropped, added or altered
C6_Original ==
  [][SentinelStep =>
       events' = Append(events,
                   Event("data: ", PJson(WithContent(rdata[1].p.v, JStr("")))))]_vars

\* C6 (amended): on an @ backend the event for a chunk with the sentinel is the
\* chunk encoded anew from the fields ChatCompletionsStreamResponse declares:
\* the five top-level fields, the first choice's content "" and every other
\* declared field with the value it was decoded to
C6_SentinelBlanked ==
  [][SentinelStep =>
       /\ Len(events') = Len(events) + 1
       /\ LET e == events'[Len(events')]
              r == UnmarshalResponse(rdata[1].p.v)
          IN /\ e.pre = "data: "
             /\ e.body.t = "json"
             /\ DOMAIN e.body.v.o = {"id", "object", "created", "model", "choices"}
             /\ e.body.v.o.choices.a[1].o.delta.o.content = JStr("")
             /\ UnmarshalResponse(e.body.v) =
                  [r EXCEPT !.Choices.elems[1].Delta.Content = JStr("")]]_vars

\* on an @ backend a chunk with the sentinel and with fields the structure
\* does not declare was scanned, and its event was written
C6_Witness ==
  /\ AtBackend
  /\ Len(scanned) = 1
  /\ scanned[1] = DataLine(PJson(ChunkExtras(EndOfSentence)), FALSE)
  /\ Len(events) = 1

\* C7: on both paths a client.Do that fails with a canceled context is answered
\* 408 and any other failure 500, on the code path in the envelope of abortCodex
C7_TimeoutVersusFailure ==
  /\ doErr = "canceled" => resp.status = StatusRequestTimeout
  /\ doErr = "other" => resp.status = StatusInternalServerError
  /\ (doErr # "none" /\ path = "code") =>
        /\ resp.ctype = EventStream
        /\ resp.body = AbortBody
  /\ doErr # "none" => pc = "done" /\ upStatus = 0 /\ events = <<>>

\* client.Do of a code request failed with a canceled context
C7_Witness == path = "code" /\ doErr = "canceled" /\ pc = "done"

\* C8 (as claimed): the forwarded model is ChatModelMap[m] when the client's
\* model m is a key of the map and ChatModelDefault otherwise, also when the
\* body has no model; on the code path it is CodeInstructModel
C8_Original ==
  fwd # <<>> =>
    /\ Exists(fwd[1], "model")
    /\ IF path = "chat"
       THEN fwd[1].model =
              (IF Exists(reqBody, "model") /\ reqBody.model \in DOMAIN cfg.ChatModelMap
               THEN cfg.ChatModelMap[reqBody.model]
               ELSE cfg.ChatModelDefault)
       ELSE fwd[1].model = Text(cfg.CodeInstructModel)

\* C8 (amended): as claimed, but a body without a model is looked up as the
\* empty string: it is forwarded as ChatModelMap[""] when the map has that key
C8_ModelOverwritten ==
  fwd # <<>> =>
    /\ Exists(fwd[1], "model")
    /\ IF path = "chat"
       THEN LET m == IF Exists(reqBody, "model") THEN reqBody.model ELSE ""
            IN fwd[1].model =
                 (IF m \in DOMAIN cfg.ChatModelMap
                  THEN cfg.ChatModelMap[m]
                  ELSE cfg.ChatModelDefault)
       ELSE fwd[1].model = Text(cfg.CodeInstructModel)

\* a chat body with a model the map does not know was forwarded
C8_Witness ==
  /\ path = "chat"
  /\ fwd # <<>>
  /\ Exists(reqBody, "model")
  /\ reqBody.model \notin DOMAIN cfg.ChatModelMap
  /\ fwd[1].model = cfg.ChatModelDefault

\* C9 (as claimed): a max_tokens above the cap is forwarded as the cap, one at
\* or below it unchanged, and an absent one stays absent, whatever the cap
C9_Original ==
  (path = "chat" /\ req # <<>>) =>
    IF Exists(reqBody, "max_tokens")
    THEN /\ Exists(req[1], "max_tokens")
         /\ req[1].max_tokens =
              (IF reqBody.max_tokens > cfg.ChatMaxTokens
               THEN cfg.ChatMaxTokens
               ELSE reqBody.max_tokens)
    ELSE ~Exists(req[1], "max_tokens")

\* C9 (amended): as claimed, but an absent max_tokens counts as 0: it stays
\* absent when the cap is 0 or more and is forwarded as the cap when the cap
\* is negative
C9_MaxTokensClamped ==
  (path = "chat" /\ req # <<>>) =>
    IF Exists(reqBody, "max_tokens")
    THEN /\ Exists(req[1], "max_tokens")
         /\ req[1].max_tokens =
              (IF reqBody.max_tokens > cfg.ChatMaxTokens
               THEN cfg.ChatMaxTokens
               ELSE reqBody.max_tokens)
    ELSE IF cfg.ChatMaxTokens >= 0
    THEN ~Exists(req[1], "max_tokens")
    ELSE Exists(req[1], "max_tokens") /\ req[1].max_tokens = cfg.ChatMaxTokens

\* a max_tokens above the cap was rewritten
C9_Witness ==
  /\ path = "chat"
  /\ req # <<>>
  /\ Exists(reqBody, "max_tokens")
  /\ reqBody.max_tokens > cfg.ChatMaxTokens
  /\ req[1].max_tokens = cfg.ChatMaxTokens

\* the content of the last message of a chat body
LastContent(body) == body.messages[Len(body.messages)].content

\* C10: the content the augmentation has produced holds the marker, and the
\* augmentation applied to it, with any locale, changes nothing
C10_LocaleIdempotent ==
  (path = "chat" /\ req # <<>> /\ ~Exists(req[1], "function_call")) =>
    /\ Contains(LastContent(req[1]), Marker)
    /\ \A l \in ChatLocales :
         LET c == [cfg EXCEPT !.ChatLocale = l] IN
         /\ AugmentContent(LastContent(req[1]), LocaleOf(c)) = LastContent(req[1])
         /\ AugmentLast(req[1], c) = req[1]

\* a last message without the marker was augmented
C10_Witness ==
  /\ path = "chat"
  /\ req # <<>>
  /\ ~Exists(reqBody, "function_call")
  /\ ~Contains(LastContent(reqBody), Marker)
  /\ LastContent(req[1]) # LastContent(reqBody)

\* a body has been constructed for a stable-code model
StableConstructed ==
  /\ path = "construct"
  /\ pc = "done"
  /\ Contains(cfg.CodeInstructModel, StableCodeModelPrefix)

\* C11: for every prompt and suffix the body the stable-code constructor
\* serializes has a content that decodes to <fim_prefix> + prompt +
\* <fim_suffix> + suffix + <fim_middle>, holds no unicode-escaped angle
\* bracket, and every other string of the body decodes to what it decoded to
\* before the restoration of the brackets
C11_StableCodeBody ==
  StableConstructed =>
    /\ DecodeString(fwd[ContentField]) =
         [ok |-> TRUE,
          s  |-> StableCodeContent(DecodeString(reqBody["prompt"]).s,
                                   DecodeString(reqBody["suffix"]).s)]
    /\ \A f \in DOMAIN fwd :
         ~Contains(fwd[f], EscapedLt) /\ ~Contains(fwd[f], EscapedGt)
    /\ \A f \in DOMAIN reqBody : DecodeString(fwd[f]) = DecodeString(reqBody[f])

\* the pass of the translator that receives the end-of-stream signal
StopStep == pc = "step" /\ rpc = "stop" /\ rpc' = "exit"

\* a pass of the translator that receives the payload [DONE]
DonePayloadStep ==
  /\ pc = "step"
  /\ rpc = "send"
  /\ rdata' # rdata
  /\ rdata[1].p = PDone

\* the events a step writes
Written == SubSeq(events', Len(events) + 1, Len(events'))

\* C12: the finish chunk and the [DONE] event are written by the pass that
\* receives the end-of-stream signal and by no other step; a pass that
\* receives the payload [DONE] writes nothing and the loop goes on, so the
\* payload is never forwarded, with either literal before it
C12_EndSignalledSeparately ==
  [][/\ (\E i \in 1..Len(Written) : IsFinish(Written[i]) \/ Written[i].body = PDone)
          => StopStep
     /\ StopStep =>
          /\ Len(Written) = 2
          /\ IsFinish(Written[1])
          /\ Written[2] = DoneEvent
     /\ DonePayloadStep => (events' = events /\ pc' = "loop" /\ rpc' = "scan")]_vars

\* a stream with a chunk and then the payload [DONE] was translated to its end
C12_Witness ==
  /\ Streaming
  /\ pc = "done"
  /\ StopReceived
  /\ \E i \in 1..Len(scanned) : scanned[i].k # "short" /\ scanned[i].p = PDone
  /\ Len(events) = 3
  /\ EndsFinishDone(events)

\* C13 (as claimed): once a read of the upstream body has failed in a stream
\* that has begun, no step writes a further event to the client
C13_SilentAfterReadFailure ==
  [][(Streaming /\ readErr) => events' = events]_vars

\* the stream loop has stopped after the finish chunk and [DONE] were written
\* on receipt of the end-of-stream signal
StreamCompleted == pc = "done" /\ StopReceived /\ EndsFinishDone(events)

\* C14 (as claimed): from the start of the stream loop on, when the client
\* stays connected, the translator eventually receives the end-of-stream
\* signal, writes the finish chunk and [DONE], and the loop stops
C14_StreamTerminates ==
  (Streaming /\ pc = "loop") ~> (clientGone \/ StreamCompleted)

\* C15 (as claimed), for the backends without the @ prefix, where no pass of
\* the translator panics: once started, the reader goroutine eventually
\* returns, also when the client disconnects and the loop exits without
\* having received the end-of-stream signal
C15_ReaderTerminates ==
  (Streaming /\ ~AtBackend /\ rpc # "off") ~> (rpc = "exit")

\* C16: the reader holds at most one payload the translator has not received,
\* it holds one exactly while it is blocked in the send on dataChan, and
\* scanner.Scan() returns a further line only when it holds none
C16_BoundedHandoff ==
  /\ [](Len(rdata) <= 1 /\ (Len(rdata) = 1 <=> rpc = "send"))
  /\ [][scanned' # scanned => (rdata = <<>> /\ rpc = "scan")]_vars

\* the reader is blocked in the send of the second payload, with the event of
\* the first written, while the translator has not begun its next pass
C16_Witness ==
  /\ Streaming
  /\ rpc = "send"
  /\ Len(rdata) = 1
  /\ Len(scanned) = 2
  /\ Len(events) = 1
  /\ pc = "loop"

\* a pass of the translator that receives a payload which parses as a chunk
ParsedStep ==
  /\ pc = "step"
  /\ rpc = "send"
  /\ rdata' # rdata
  /\ ~UnmarshalErr(rdata[1].p)

\* C17 (as claimed): a pass that receives a payload which parses as a chunk,
\* whatever its choices and whatever the code model, writes one event and the
\* stream loop goes on
C17_ParsedPayloadWritten ==
  [][ParsedStep => (Len(events') = Len(events) + 1 /\ pc' = "loop")]_vars

\* the debounce delay of a code request ends with the context canceled
DebounceCanceled == path = "code" /\ pc = "start" /\ clientGone /\ pc' # pc

\* C18: when the context is canceled at the end of the debounce delay the
\* handler returns at once with status 408, Content-Type text/event-stream and
\* the body "data: [DONE]\n"; no upstream request is built or sent, no reader
\* is started, nothing is written or logged, and nothing happens afterwards
C18_CanceledAfterDebounce ==
  /\ [][DebounceCanceled =>
          /\ pc' = "done"
          /\ resp' = [status |-> StatusRequestTimeout, ctype |-> EventStream,
                      body |-> AbortBody]
          /\ req' = <<>>
          /\ fwd' = <<>>
          /\ doErr' = "none"
          /\ upStatus' = 0
          /\ rpc' = "off"
          /\ events' = <<>>
          /\ logs' = <<>>]_vars
  /\ [][(path = "code" /\ pc = "done" /\ rpc = "off") => UNCHANGED vars]_vars

\* a code request was aborted after the debounce delay
C18_Witness ==
  /\ path = "code"
  /\ pc = "done"
  /\ clientGone
  /\ resp.status = StatusRequestTimeout
  /\ req = <<>>

\* C19 (as claimed): no step writes more than one event before the writer is
\* flushed, and every event written is flushed by the step that writes it
C19_Original ==
  [][Len(Written) <= 1 /\ flushed' = Len(events')]_vars

\* C19 (amended): every event written is flushed by the pass that writes it;
\* a pass that receives a payload writes at most one event before the flush,
\* and the pass that receives the end-of-stream signal writes the finish
\* chunk and the [DONE] event, both before the one flush that follows
C19_FlushedPerPass ==
  [][/\ flushed' = Len(events')
     /\ IF StopStep THEN Len(Written) = 2 ELSE Len(Written) <= 1]_vars

\* two chunks were written and flushed one by one, then the finish chunk and
\* the [DONE] event were written and flushed
C19_Witness ==
  /\ Streaming
  /\ StopReceived
  /\ Len(events) = 4
  /\ flushed = 4

\* C20 (as claimed): a chat request whose body has no function_call field,
\* its messages absent or empty included, never ends in a panic of the
\* rewrite
C20_RewriteCompletes ==
  (path = "chat" /\ ~Exists(reqBody, "function_call")) => pc # "panicked"

====
